---------------------------- MODULE Spec2Model ----------------------------
(***************************************************************************)
(* The REDI ZipDeck pipeline of src/redi_mcp_zipdeck/agent.py: a           *)
(* SequentialAgent (root_agent) over four sub-agents, query_analyzer,      *)
(* zip_data_retriever, data_formatter and slide_builder, that hand data    *)
(* forward through the session state under their output_key.               *)
(*                                                                         *)
(* A query is a sequence of tokens.  A number token carries its digits, so *)
(* that "a 5-digit number" is computed; the word tokens are the classes    *)
(* the parsing rules of query_analyzer tell apart.  Where the instruction  *)
(* of an agent decides the output, the model computes it; where it leaves  *)
(* the output open (no rule applies, or two rules apply and no precedence  *)
(* is stated), every outcome the rules admit is a possible step.           *)
(***************************************************************************)
EXTENDS Integers, Sequences, FiniteSets, TLC

\* ------------------------------------------------------------- bounds
\* Longest query, in tokens.
MaxLen == 4

\* ------------------------------------------------------------- tokens
Num(ds) == [k |-> "num", d |-> ds]
Word(c) == [k |-> c, d |-> <<>>]

\* The postal codes the instructions use in their examples.
Z30045 == <<3, 0, 0, 4, 5>>
Z30043 == <<3, 0, 0, 4, 3>>
\* A run of six digits: a number that is no postal code.
N300451 == <<3, 0, 0, 4, 5, 1>>

\* "vs" stands for vs/versus, "compare" for compare/comparing/difference
\* between, "with" for with/to.  Words that no parsing rule reads are left
\* out of the token sequence.
Vocabulary ==
    { Num(Z30045), Num(Z30043), Num(N300451),
      Word("vs"), Word("compare"), Word("with"), Word("and") }

RECURSIVE SeqsUpTo(_, _)
SeqsUpTo(S, n) ==
    IF n = 0 THEN { <<>> }
    ELSE LET shorter == SeqsUpTo(S, n - 1)
         IN  shorter \cup { Append(s, x) : s \in shorter, x \in S }

Queries == SeqsUpTo(Vocabulary, MaxLen) \ { <<>> }

\* ------------------------------------------------- optional (null) values
Null == [isNull |-> TRUE, val |-> <<>>]
Some(v) == [isNull |-> FALSE, val |-> v]

\* ----------------------------------------------------- query_analyzer
\* PARSING RULES 1: a zip code is a 5-digit number.
ZipLen == 5
IsZip(t) == t.k = "num" /\ Len(t.d) = ZipLen

RECURSIVE ExtractZips(_)
ExtractZips(q) ==
    IF q = <<>> THEN <<>>
    ELSE IF IsZip(Head(q)) THEN <<Head(q).d>> \o ExtractZips(Tail(q))
         ELSE ExtractZips(Tail(q))

Positions(q, c) == { p \in 1..Len(q) : q[p].k = c }
ZipsBefore(q, p) == ExtractZips(SubSeq(q, 1, p - 1))
ZipsAfter(q, p) == ExtractZips(SubSeq(q, p + 1, Len(q)))

\* PARSING RULES 2: comparison intent.
HasSeparator(q) == Positions(q, "vs") # {}
HasKeyword(q) == Positions(q, "compare") # {}

\* Faulty variant: the keywords are not taken for comparison intent.
HasIntentSeparatorOnly(q) == HasSeparator(q)

HasIntent(q) == HasSeparator(q) \/ HasKeyword(q)

\* OUTPUT FORMAT.
QueryStructure(type, left, right, q) ==
    [comparison_type |-> type, left_zips |-> left, right_zips |-> right,
     original_query |-> q]

\* Faulty variant: the separator's two sides are exchanged.
SplitAtSwapped(q, p) ==
    QueryStructure("comparison", ZipsAfter(q, p), Some(ZipsBefore(q, p)), q)

\* "Split at that point".
SplitAt(q, p) ==
    QueryStructure("comparison", ZipsBefore(q, p), Some(ZipsAfter(q, p)), q)

BothSides(q, p) == ZipsBefore(q, p) # <<>> /\ ZipsAfter(q, p) # <<>>

\* Faulty variant: a keyword comparison falls back to one group.
SplitCodesAggregate(q, k) ==
    QueryStructure("aggregate", ExtractZips(q), Null, q)

\* A split of the extracted codes after the k-th code.
SplitCodes(q, k) ==
    LET zs == ExtractZips(q)
    IN  QueryStructure("comparison", SubSeq(zs, 1, k),
                       Some(SubSeq(zs, k + 1, Len(zs))), q)

\* "compare/comparing X and Y where X and Y are individual zips".
AndBetweenTwo(q) ==
    /\ Len(ExtractZips(q)) = 2
    /\ \E p \in Positions(q, "and") :
          Len(ZipsBefore(q, p)) = 1 /\ Len(ZipsAfter(q, p)) = 1

\* The grouping rules below the vs rule (PARSING RULES 3, bullets 2 to 5).
GroupWithoutVs(q) ==
    LET zs == ExtractZips(q)
        withSplits == { p \in Positions(q, "with") : BothSides(q, p) }
    IN  IF Len(zs) = 0
        THEN \* no rule applies and none fails: there is no code to report,
             \* aggregate is "only for multiple zips" and a comparison needs
             \* two groups
             { QueryStructure("single", <<>>, Null, q) }
        ELSE IF Len(zs) = 1
        THEN { QueryStructure("single", zs, Null, q) }
        ELSE IF ~HasIntent(q)
        THEN { QueryStructure("aggregate", zs, Null, q) }
        ELSE IF HasKeyword(q) /\ withSplits # {}
        THEN { SplitAt(q, p) : p \in withSplits }
        ELSE IF HasKeyword(q) /\ AndBetweenTwo(q)
        THEN { SplitCodes(q, 1) }
        ELSE \* comparison intent, grouping not decided by any rule
             { SplitCodes(q, k) : k \in 1..(Len(zs) - 1) }

\* PARSING RULES 3: every QueryStructure the rules admit for q.
Classify(q) ==
    LET vs == Positions(q, "vs")
        clean == { p \in vs : BothSides(q, p) }
    IN  IF clean # {}
        THEN { SplitAt(q, p) : p \in clean }
        ELSE IF vs # {}
        THEN \* "Split at that point" leaves a side empty, and the rules
             \* state no precedence over the rules that follow
             { SplitAt(q, p) : p \in vs } \cup GroupWithoutVs(q)
        ELSE GroupWithoutVs(q)

\* ------------------------------------------------- root_agent (controller)
VARIABLES
    query,      \* the user's text, as tokens
    ctl,        \* controller: Idle, Running(idx), Completed, Failed(idx, cause)
    active,     \* the sub-agents executing now
    started,    \* the sub-agents started so far, in order
    ctx,        \* the session state: output_key -> published value
    writes,     \* every publication so far: <<output_key, sub-agent>>
    toolCalls,  \* every external operation invoked: agent, tool, arguments
    responses,  \* the tool responses the running retriever has received
    result,     \* what the caller has been given
    parked      \* a second run of root_agent, while this one is scheduled

\* The variables of one run.
run == <<query, ctl, active, started, ctx, writes, toolCalls, responses, result>>

vars == <<run, parked>>

\* sub_agents, in the order root_agent lists them.
SubAgents ==
    << "query_analyzer", "zip_data_retriever", "data_formatter", "slide_builder" >>

\* Faulty variant: data_formatter publishes under the retriever's key.
OutputKeyShared(agent) ==
    CASE agent = "query_analyzer" -> "query_structure"
      [] agent = "zip_data_retriever" -> "zip_data"
      [] agent = "data_formatter" -> "zip_data"
      [] OTHER -> "none"

\* output_key of each sub-agent; slide_builder declares none.
OutputKey(agent) ==
    CASE agent = "query_analyzer" -> "query_structure"
      [] agent = "zip_data_retriever" -> "zip_data"
      [] agent = "data_formatter" -> "slide_params"
      [] OTHER -> "none"

Idle == [st |-> "Idle", idx |-> 0, cause |-> "none"]
Running(i) == [st |-> "Running", idx |-> i, cause |-> "none"]
Completed == [st |-> "Completed", idx |-> Len(SubAgents), cause |-> "none"]
Failed(i, c) == [st |-> "Failed", idx |-> i, cause |-> c]

NoResult == [kind |-> "none", stage |-> 0]
Locator == [kind |-> "locator", stage |-> Len(SubAgents)]
ErrorResult(i) == [kind |-> "error", stage |-> i]

\* The state of a run before the caller sends its query.
NewRun(q) ==
    [query |-> q, ctl |-> Idle, active |-> {}, started |-> <<>>, ctx |-> <<>>,
     writes |-> <<>>, toolCalls |-> <<>>, responses |-> <<>>, result |-> NoResult]

\* No second run.
NoRun == NewRun(<<>>)

Init ==
    /\ query \in Queries
    /\ ctl = Idle
    /\ active = {}
    /\ started = <<>>
    /\ ctx = <<>>
    /\ writes = <<>>
    /\ toolCalls = <<>>
    /\ responses = <<>>
    /\ result = NoResult
    /\ parked = NoRun

\* The caller sends the query: the controller is at its first sub-agent.
Start ==
    /\ ctl.st = "Idle"
    /\ ctl' = Running(1)
    /\ UNCHANGED <<parked, query, active, started, ctx, writes, toolCalls, responses, result>>

\* The sub-agent the controller runs after the one at index i.
NextIndex(i) == i + 1

\* The controller state after the sub-agent at index i has returned.
AfterStage(i) ==
    IF NextIndex(i) > Len(SubAgents) THEN Completed ELSE Running(NextIndex(i))

\* Faulty variant: the controller does not wait for the running sub-agent.
MayBeginAlways == TRUE

\* The controller may start a sub-agent: none is running.
MayBegin == active = {}

\* The controller starts the sub-agent at its index.
BeginStage ==
    /\ ctl.st = "Running"
    /\ ctl.idx \in 1..Len(SubAgents)
    /\ MayBegin
    /\ active' = active \cup { SubAgents[ctl.idx] }
    /\ started' = Append(started, SubAgents[ctl.idx])
    /\ UNCHANGED <<parked, query, ctl, ctx, writes, toolCalls, responses, result>>

\* state[output_key] = value.
Publish(state, key, value) ==
    [k \in DOMAIN state \cup {key} |-> IF k = key THEN value ELSE state[k]]

\* A sub-agent returns its final response: it is saved under the agent's
\* output_key, and the controller moves on.
Return(agent, value) ==
    /\ ctx' = IF OutputKey(agent) = "none" THEN ctx
              ELSE Publish(ctx, OutputKey(agent), value)
    /\ writes' = IF OutputKey(agent) = "none" THEN writes
                 ELSE Append(writes, <<OutputKey(agent), agent>>)
    /\ active' = active \ {agent}
    /\ ctl' = AfterStage(ctl.idx)

\* Faulty variant: the exception is swallowed and the loop goes on.
RaiseSwallowed(agent, cause) ==
    /\ active' = active \ {agent}
    /\ ctl' = AfterStage(ctl.idx)
    /\ result' = ErrorResult(ctl.idx)

\* A sub-agent raises: the exception leaves the loop over sub_agents.
Raise(agent, cause) ==
    /\ active' = active \ {agent}
    /\ ctl' = Failed(ctl.idx, cause)
    /\ result' = ErrorResult(ctl.idx)

\* The model completion of a running sub-agent fails.
StageRaises ==
    /\ ctl.st = "Running"
    /\ \E agent \in active :
          /\ Raise(agent, "InvocationError")
          /\ UNCHANGED <<parked, query, started, ctx, writes, toolCalls, responses>>

\* query_analyzer: tools=[], output_key="query_structure".
QueryAnalyzerRun ==
    /\ ctl.st = "Running"
    /\ "query_analyzer" \in active
    /\ \E qs \in Classify(query) : Return("query_analyzer", qs)
    /\ UNCHANGED <<parked, query, started, toolCalls, responses, result>>

\* ------------------------------------------------------- get_zips (MCP)
\* The fields of a get_zips response, in the order the panels list them.
CategoryOrder ==
    << "top_retailers", "top_social_platforms", "top_influencers",
       "top_qsrs", "demographics" >>

AllFields == { CategoryOrder[i] : i \in 1..Len(CategoryOrder) }

Bundle(zips, fields) == [ok |-> TRUE, zips |-> zips, fields |-> fields]
ErrorResponse(zips) == [ok |-> FALSE, zips |-> zips, fields |-> {}]
NoData == [isNull |-> TRUE, val |-> ErrorResponse(<<>>)]

\* What the tool may answer: the full bundle, a bundle without
\* top_retailers, or an error.
GetZips(zips) ==
    { Bundle(zips, AllFields),
      Bundle(zips, AllFields \ {"top_retailers"}),
      ErrorResponse(zips) }

ToolCall(agent, tool, args) == [agent |-> agent, tool |-> tool, args |-> args]

\* ------------------------------------------------- zip_data_retriever
\* Faulty variant: STEP 2 is never taken.
CallsNeededOnce(qs) == 1

\* The get_zips calls the EXECUTION SEQUENCE makes for a query_structure.
CallsNeeded(qs) == IF qs.right_zips.isNull THEN 1 ELSE 2

\* Faulty variant: the retriever picks the other tool of the toolset.
RetrieverToolOther == "build_pptx_slide"

\* The tool the EXECUTION SEQUENCE names, out of the unfiltered toolset.
RetrieverTool == "get_zips"

\* One get_zips call and its response.  An error response is either kept as
\* the raw tool output or ends the sub-agent.
RetrieverCall(args) ==
    \E r \in GetZips(args) :
       /\ toolCalls' = Append(toolCalls,
                              ToolCall("zip_data_retriever", RetrieverTool, args))
       /\ \/ /\ responses' = Append(responses, r)
             /\ UNCHANGED <<ctl, active, result>>
          \/ /\ ~r.ok
             /\ responses' = responses
             /\ Raise("zip_data_retriever", "RetrievalError")

\* STEP 1: call get_zips with left_zips.
RetrieverCallLeft ==
    /\ ctl.st = "Running"
    /\ "zip_data_retriever" \in active
    /\ "query_structure" \in DOMAIN ctx
    /\ Len(responses) = 0
    /\ RetrieverCall(ctx["query_structure"].left_zips)
    /\ UNCHANGED <<parked, query, started, ctx, writes>>

\* STEP 2: if right_zips is not null, call get_zips again.
RetrieverCallRight ==
    /\ ctl.st = "Running"
    /\ "zip_data_retriever" \in active
    /\ "query_structure" \in DOMAIN ctx
    /\ Len(responses) = 1
    /\ ~ctx["query_structure"].right_zips.isNull
    /\ RetrieverCall(ctx["query_structure"].right_zips.val)
    /\ UNCHANGED <<parked, query, started, ctx, writes>>

\* STEP 3: return {"left_data": ..., "right_data": ... or null}.
ZipData(rs) ==
    [left_data |-> Some(rs[1]),
     right_data |-> IF Len(rs) >= 2 THEN Some(rs[2]) ELSE NoData]

RetrieverReturn ==
    /\ ctl.st = "Running"
    /\ "zip_data_retriever" \in active
    /\ "query_structure" \in DOMAIN ctx
    /\ Len(responses) = CallsNeeded(ctx["query_structure"])
    /\ Return("zip_data_retriever", ZipData(responses))
    /\ responses' = <<>>
    /\ UNCHANGED <<parked, query, started, toolCalls, result>>

\* ----------------------------------------------------- data_formatter
LabelOf(field) ==
    CASE field = "top_retailers" -> "Retail"
      [] field = "top_social_platforms" -> "Social Platforms"
      [] field = "top_influencers" -> "Top Influencers"
      [] field = "top_qsrs" -> "QSR"
      [] OTHER -> "Audience"

\* One {"label", "value"} item; the value is what the response holds in
\* that field for those zips.
Item(field, data) ==
    [label |-> LabelOf(field), value |-> [field |-> field, zips |-> data.zips]]

\* Faulty variant: an item is written for every category, in the data or not.
RECURSIVE ItemsFromAll(_, _)
ItemsFromAll(fields, data) ==
    IF fields = <<>> THEN <<>>
    ELSE <<Item(Head(fields), data)>> \o ItemsFromAll(Tail(fields), data)

RECURSIVE ItemsFrom(_, _)
ItemsFrom(fields, data) ==
    IF fields = <<>> THEN <<>>
    ELSE IF Head(fields) \in data.fields
         THEN <<Item(Head(fields), data)>> \o ItemsFrom(Tail(fields), data)
         ELSE ItemsFrom(Tail(fields), data)

\* LEFT/RIGHT PANELS: {"title": ..., "items": [...]}.
SidePanel(zips, data) ==
    [title |-> [text |-> "Insights", zips |-> zips],
     items |-> ItemsFrom(CategoryOrder, data)]

\* Faulty variant: the bottom panel takes the side panels' shape.
BottomPanelItems(type) ==
    [title |-> "Strategic Recommendations",
     items |-> << [label |-> "Recommendation", value |-> "recommendations"] >>]

\* BOTTOM PANEL: {"title": ..., "text": ...}, text a single string.
BottomPanel(type) ==
    [title |-> IF type = "comparison" THEN "Comparison Insights"
               ELSE "Strategic Recommendations",
     text |-> "recommendations"]

\* STATE INFERENCE: from the first zip code of left_zips (300xx is GA).
InferState(zips) ==
    IF zips = <<>> THEN "unknown"
    ELSE IF SubSeq(Head(zips), 1, 3) = <<3, 0, 0>> THEN "GA" ELSE "other"

SlideTitle(qs) ==
    [kind |-> qs.comparison_type, left |-> qs.left_zips,
     right |-> qs.right_zips.val]

\* The parameters every slide has.
LeftParams(qs, zd) ==
    [title |-> SlideTitle(qs),
     state |-> InferState(qs.left_zips),
     zip_codes_left |-> qs.left_zips,
     left_panel |-> SidePanel(qs.left_zips, zd.left_data.val),
     bottom_panel |-> BottomPanel(qs.comparison_type)]

\* The parameters of the right side.
RightParams(qs, zd) ==
    [zip_codes_right |-> qs.right_zips.val,
     right_panel |-> SidePanel(qs.right_zips.val, zd.right_data.val)]

\* Faulty variant: the right side is included for every comparison_type.
IncludesRightAlways(qs) == TRUE

\* FORMATTING LOGIC BASED ON comparison_type.
IncludesRight(qs) == qs.comparison_type = "comparison"

Format(qs, zd) ==
    IF IncludesRight(qs) THEN LeftParams(qs, zd) @@ RightParams(qs, zd)
    ELSE LeftParams(qs, zd)

\* data_formatter: tools=[], output_key="slide_params".
DataFormatterRun ==
    /\ ctl.st = "Running"
    /\ "data_formatter" \in active
    /\ "query_structure" \in DOMAIN ctx
    /\ "zip_data" \in DOMAIN ctx
    /\ Return("data_formatter", Format(ctx["query_structure"], ctx["zip_data"]))
    /\ UNCHANGED <<parked, query, started, toolCalls, responses, result>>

\* ------------------------------------------------------ slide_builder
\* Faulty variant: left_panel is taken for optional.
RequiredParamsNoPanel == { "title", "state", "zip_codes_left" }

\* INPUT: the required parameters of build_pptx_slide.
RequiredParams == { "title", "state", "zip_codes_left", "left_panel" }

\* What the tool may answer: a slide URL, or an error (always an error
\* when a required parameter is missing).
BuildPptxSlide(args) ==
    IF RequiredParams \subseteq DOMAIN args THEN {"url", "error"} ELSE {"error"}

\* Faulty variant: an optional parameter of the tool is given a default.
RenderArgsDefaulted(params) == params @@ [save_locally |-> TRUE]

\* ACTION: "Call build_pptx_slide with these EXACT parameters".
RenderArgs(params) == params

SlideBuilderRun ==
    /\ ctl.st = "Running"
    /\ "slide_builder" \in active
    /\ "slide_params" \in DOMAIN ctx
    /\ LET args == RenderArgs(ctx["slide_params"])
       IN  /\ toolCalls' = Append(toolCalls,
                                  ToolCall("slide_builder", "build_pptx_slide", args))
           /\ \E answer \in BuildPptxSlide(args) :
                 \/ /\ answer = "url"
                    /\ Return("slide_builder", answer)
                    /\ result' = Locator
                 \/ /\ answer = "error"
                    /\ Raise("slide_builder", "RenderError")
                    /\ UNCHANGED <<ctx, writes>>
    /\ UNCHANGED <<parked, query, started, responses>>

\* ------------------------------------------------------ specification
Next ==
    \/ Start
    \/ BeginStage
    \/ StageRaises
    \/ QueryAnalyzerRun
    \/ RetrieverCallLeft
    \/ RetrieverCallRight
    \/ RetrieverReturn
    \/ DataFormatterRun
    \/ SlideBuilderRun

Spec == Init /\ [][Next]_vars

\* ------------------------------------------- slide_builder on any input
\* The comparison example of slide_builder: 30045 vs 30043.
SampleQuery == << Num(Z30045), Word("vs"), Num(Z30043) >>
SampleStructure == SplitAt(SampleQuery, 2)
SampleData ==
    ZipData(<< Bundle(<<Z30045>>, AllFields), Bundle(<<Z30043>>, AllFields) >>)
SampleParams == Format(SampleStructure, SampleData)

\* The example's parameters with any of them left out.
ParamsGiven == { [f \in fs |-> SampleParams[f]] : fs \in SUBSET DOMAIN SampleParams }

\* slide_builder is about to run on some dictionary of parameters.
InitRender ==
    /\ query = SampleQuery
    /\ ctl = Running(Len(SubAgents))
    /\ active = {}
    /\ started = SubSeq(SubAgents, 1, Len(SubAgents) - 1)
    /\ \E given \in ParamsGiven :
          ctx = [query_structure |-> SampleStructure, zip_data |-> SampleData,
                 slide_params |-> given]
    /\ writes = << << "query_structure", "query_analyzer" >>,
                   << "zip_data", "zip_data_retriever" >>,
                   << "slide_params", "data_formatter" >> >>
    /\ toolCalls = << ToolCall("zip_data_retriever", "get_zips", <<Z30045>>),
                      ToolCall("zip_data_retriever", "get_zips", <<Z30043>>) >>
    /\ responses = <<>>
    /\ result = NoResult
    /\ parked = NoRun

NextRender ==
    \/ BeginStage
    \/ StageRaises
    \/ SlideBuilderRun

SpecRender == InitRender /\ [][NextRender]_vars

\* ------------------------------------------- query_analyzer on longer queries
\* Longest query given to query_analyzer alone, in tokens.
MaxClassifyLen == 5

InitClassify ==
    /\ query \in SeqsUpTo(Vocabulary, MaxClassifyLen) \ { <<>> }
    /\ ctl = Idle
    /\ active = {}
    /\ started = <<>>
    /\ ctx = <<>>
    /\ writes = <<>>
    /\ toolCalls = <<>>
    /\ responses = <<>>
    /\ result = NoResult
    /\ parked = NoRun

\* The run up to the return of query_analyzer.
NextClassify ==
    \/ Start
    \/ (ctl.idx = 1 /\ BeginStage)
    \/ QueryAnalyzerRun

SpecClassify == InitClassify /\ [][NextClassify]_vars

\* ------------------------------------------------ two runs, interleaved
\* The queries of two callers.
TwoRunQueries ==
    { << Num(Z30045) >>,
      << Num(Z30043), Num(Z30045) >>,
      << Num(Z30045), Word("vs"), Num(Z30043) >> }

InitTwo ==
    /\ query \in TwoRunQueries
    /\ ctl = Idle
    /\ active = {}
    /\ started = <<>>
    /\ ctx = <<>>
    /\ writes = <<>>
    /\ toolCalls = <<>>
    /\ responses = <<>>
    /\ result = NoResult
    /\ parked \in { NewRun(q) : q \in TwoRunQueries }

\* Faulty variant: the runs work on one state dictionary.
SessionStateShared(own, scheduled) == scheduled

\* The state a run works on when it is scheduled: its own, whichever run
\* was scheduled before it.
SessionState(own, scheduled) == own

\* The scheduled run is suspended (at a model or tool call) and the other
\* run goes on.
Switch ==
    /\ parked.query # <<>>
    /\ query' = parked.query
    /\ ctl' = parked.ctl
    /\ active' = parked.active
    /\ started' = parked.started
    /\ ctx' = SessionState(parked.ctx, ctx)
    /\ writes' = parked.writes
    /\ toolCalls' = parked.toolCalls
    /\ responses' = parked.responses
    /\ result' = parked.result
    /\ parked' = [query |-> query, ctl |-> ctl, active |-> active,
                  started |-> started, ctx |-> SessionState(ctx, parked.ctx),
                  writes |-> writes, toolCalls |-> toolCalls,
                  responses |-> responses, result |-> result]

NextTwo ==
    \/ Next
    \/ Switch

SpecTwo == InitTwo /\ [][NextTwo]_vars

\* ------------------------------------------------------------- claims
Keys == { "query_structure", "zip_data", "slide_params" }

Fetches == SelectSeq(toolCalls, LAMBDA c : c.tool = "get_zips")
Renders == SelectSeq(toolCalls, LAMBDA c : c.tool = "build_pptx_slide")

\* C1: the four stages run in the fixed order query_analyzer,
\* zip_data_retriever, data_formatter, slide_builder: the stages started so
\* far are a prefix of that list (none skipped, none twice), at most one
\* stage executes at a time and it is the last one started, and every stage
\* before the last one started has returned and published its output.
C1_StrictOrder ==
    /\ Len(started) <= 4
    /\ started = SubSeq(<< "query_analyzer", "zip_data_retriever",
                           "data_formatter", "slide_builder" >>, 1, Len(started))
    /\ Cardinality(active) <= 1
    /\ \A a \in active : Len(started) >= 1 /\ a = started[Len(started)]
    /\ \A i \in 1..(Len(started) - 1) :
          /\ started[i] \notin active
          /\ \E j \in 1..Len(writes) : writes[j][2] = started[i]

C1_Witness ==
    /\ ctl.st = "Completed"
    /\ Len(started) = 4

\* C2: once a stage has failed in Running(i), the controller is in
\* Failed(i, cause), no stage after i has been started, nothing can run any
\* more, and if i is the classifier, retrieval or formatting stage the
\* render operation has not been invoked.
C2_FailureHalts ==
    result.kind = "error" =>
        /\ ctl.st = "Failed"
        /\ ctl.idx = result.stage
        /\ Len(started) = result.stage
        /\ active = {}
        /\ ~ENABLED Next
        /\ result.stage < 4 => Renders = <<>>

C2_Witness ==
    /\ ctl.st = "Failed"
    /\ ctl.idx = 3
    /\ "zip_data" \in DOMAIN ctx

\* C3: the context is append-only and single-writer: after every step its
\* keys are among query_structure, zip_data and slide_params, each published
\* key was published exactly once and by its own stage, and a step leaves
\* every key already published in place with its value unchanged.
C3_AppendOnly ==
    [][ /\ DOMAIN ctx' \subseteq Keys
        /\ \A k \in DOMAIN ctx : k \in DOMAIN ctx' /\ ctx'[k] = ctx[k]
        /\ DOMAIN ctx' = { writes'[i][1] : i \in 1..Len(writes') }
        /\ \A i, j \in 1..Len(writes') : writes'[i][1] = writes'[j][1] => i = j
        /\ \A i \in 1..Len(writes') :
              writes'[i] \in { << "query_structure", "query_analyzer" >>,
                               << "zip_data", "zip_data_retriever" >>,
                               << "slide_params", "data_formatter" >> } ]_vars

C3_Witness ==
    /\ DOMAIN ctx = Keys
    /\ ctl.st = "Completed"

\* C4: every published QueryStructure has right_zips set exactly when
\* comparison_type is comparison, never has an empty right_zips, and never
\* has an empty left_zips.
C4_WellFormed ==
    "query_structure" \in DOMAIN ctx =>
        LET qs == ctx["query_structure"]
        IN  /\ ~qs.right_zips.isNull <=> qs.comparison_type = "comparison"
            /\ ~qs.right_zips.isNull => qs.right_zips.val # <<>>
            /\ qs.left_zips # <<>>

\* C5: the fetch operation is never invoked before query_structure is
\* published nor more often than it has non-null groups; the first call
\* carries left_zips and the second right_zips; and once zip_data is
\* published the number of calls equals the number of non-null groups.
C5_FetchPerGroup ==
    /\ "query_structure" \notin DOMAIN ctx => Fetches = <<>>
    /\ "query_structure" \in DOMAIN ctx =>
          LET qs == ctx["query_structure"]
              groups == IF qs.right_zips.isNull THEN 1 ELSE 2
          IN  /\ Len(Fetches) <= groups
              /\ Len(Fetches) >= 1 => Fetches[1].args = qs.left_zips
              /\ Len(Fetches) >= 2 => Fetches[2].args = qs.right_zips.val
              /\ "zip_data" \in DOMAIN ctx => Len(Fetches) = groups

C5_Witness ==
    /\ "zip_data" \in DOMAIN ctx
    /\ Len(Fetches) = 2
    /\ Fetches[1].args # Fetches[2].args

\* C6: for a query holding exactly one 5-digit number, whatever else it
\* holds, the published QueryStructure is single, with that code alone in
\* left_zips and right_zips null.
C6_OneCodeIsSingle ==
    ("query_structure" \in DOMAIN ctx /\ Len(ExtractZips(query)) = 1) =>
        LET qs == ctx["query_structure"]
        IN  /\ qs.comparison_type = "single"
            /\ qs.left_zips = ExtractZips(query)
            /\ qs.right_zips.isNull

\* C7: for a query with a vs/versus separator that has a code on each side,
\* the published QueryStructure is a comparison whose left_zips are the
\* codes before such a separator and whose right_zips are the codes after
\* it, in order, so that left_zips followed by right_zips is the sequence
\* of extracted codes.
C7_VsPartition ==
    ("query_structure" \in DOMAIN ctx
        /\ \E p \in 1..Len(query) :
              /\ query[p].k = "vs"
              /\ ExtractZips(SubSeq(query, 1, p - 1)) # <<>>
              /\ ExtractZips(SubSeq(query, p + 1, Len(query))) # <<>>) =>
        LET qs == ctx["query_structure"]
        IN  /\ qs.comparison_type = "comparison"
            /\ ~qs.right_zips.isNull
            /\ qs.left_zips \o qs.right_zips.val = ExtractZips(query)
            /\ \E p \in 1..Len(query) :
                  /\ query[p].k = "vs"
                  /\ qs.left_zips = ExtractZips(SubSeq(query, 1, p - 1))
                  /\ qs.left_zips # <<>>
                  /\ qs.right_zips.val = ExtractZips(SubSeq(query, p + 1, Len(query)))
                  /\ qs.right_zips.val # <<>>

C7_Witness ==
    /\ "query_structure" \in DOMAIN ctx
    /\ \E p \in 1..Len(query) : query[p].k = "vs"
    /\ ctx["query_structure"].left_zips = << Z30045, Z30043 >>
    /\ ctx["query_structure"].right_zips.val = << Z30043 >>

\* C8: for a query holding no 5-digit number, query_structure is never
\* published and the fetch operation is never invoked: the classifier stage
\* fails and the caller is given the error.
C8_NoCodeFails ==
    ExtractZips(query) = <<>> =>
        /\ "query_structure" \notin DOMAIN ctx
        /\ Fetches = <<>>
        /\ Len(started) >= 1 /\ active = {} => result.kind = "error"

\* C9: in every published SlideParameters, left_panel and (when present)
\* right_panel have exactly the fields title and items, items a sequence of
\* label/value pairs, and bottom_panel has exactly the fields title and
\* text, text a single string.
SidePanelShape(panel) ==
    /\ DOMAIN panel = { "title", "items" }
    /\ \A i \in DOMAIN panel.items :
          DOMAIN panel.items[i] = { "label", "value" }

C9_PanelShapes ==
    "slide_params" \in DOMAIN ctx =>
        LET sp == ctx["slide_params"]
        IN  /\ "left_panel" \in DOMAIN sp
            /\ SidePanelShape(sp.left_panel)
            /\ "right_panel" \in DOMAIN sp => SidePanelShape(sp.right_panel)
            /\ "bottom_panel" \in DOMAIN sp
            /\ DOMAIN sp.bottom_panel = { "title", "text" }
            /\ sp.bottom_panel.text \in STRING

C9_Witness ==
    /\ "slide_params" \in DOMAIN ctx
    /\ "right_panel" \in DOMAIN ctx["slide_params"]
    /\ Len(ctx["slide_params"].left_panel.items) = 5
    /\ Len(ctx["slide_params"].right_panel.items) = 4

\* C10: in every published SlideParameters and in the arguments of every
\* render invocation, zip_codes_right and right_panel are both present or
\* both absent, and present exactly when comparison_type is comparison.
RightPaired(params, type) ==
    /\ "zip_codes_right" \in DOMAIN params <=> "right_panel" \in DOMAIN params
    /\ "right_panel" \in DOMAIN params <=> type = "comparison"

C10_RightPaired ==
    /\ "slide_params" \in DOMAIN ctx =>
          RightPaired(ctx["slide_params"], ctx["query_structure"].comparison_type)
    /\ \A i \in 1..Len(Renders) :
          RightPaired(Renders[i].args, ctx["query_structure"].comparison_type)

C10_Witness ==
    /\ Len(Renders) = 1
    /\ "right_panel" \in DOMAIN Renders[1].args
    /\ ctx["query_structure"].comparison_type = "comparison"
    /\ ctl.st = "Completed"

\* C11: a get_zips response that lacks the source field of a category does
\* not stop the formatter, and for a single query the published left_panel
\* has an item for a category exactly when its source field is in left_data
\* (no Retail item without top_retailers), each item carrying the data of
\* that field and nothing else.
CategoryLabels ==
    { << "top_retailers", "Retail" >>,
      << "top_social_platforms", "Social Platforms" >>,
      << "top_influencers", "Top Influencers" >>,
      << "top_qsrs", "QSR" >>,
      << "demographics", "Audience" >> }

C11_OmitMissing ==
    /\ ("data_formatter" \in active /\ ctl.st = "Running") => ENABLED DataFormatterRun
    /\ ("slide_params" \in DOMAIN ctx
           /\ ctx["query_structure"].comparison_type = "single") =>
          LET data == ctx["zip_data"].left_data.val
              items == ctx["slide_params"].left_panel.items
          IN  /\ \A c \in CategoryLabels :
                    c[1] \in data.fields <=>
                        \E i \in 1..Len(items) : items[i].label = c[2]
              /\ \A i \in 1..Len(items) :
                    /\ << items[i].value.field, items[i].label >> \in CategoryLabels
                    /\ items[i].value.field \in data.fields
                    /\ items[i].value.zips = data.zips
              /\ \A i, j \in 1..Len(items) :
                    items[i].label = items[j].label => i = j

C11_Witness ==
    /\ "slide_params" \in DOMAIN ctx
    /\ ctx["query_structure"].comparison_type = "single"
    /\ ctx["zip_data"].left_data.val.ok
    /\ "top_retailers" \notin ctx["zip_data"].left_data.val.fields
    /\ Len(ctx["slide_params"].left_panel.items) = 4
    /\ \A i \in 1..4 : ctx["slide_params"].left_panel.items[i].label # "Retail"

\* C13: the arguments of every render invocation are the published
\* slide_params: the same fields, each with the same value.
C13_PassThrough ==
    \A i \in 1..Len(Renders) :
       /\ "slide_params" \in DOMAIN ctx
       /\ DOMAIN Renders[i].args = DOMAIN ctx["slide_params"]
       /\ \A f \in DOMAIN Renders[i].args :
             Renders[i].args[f] = ctx["slide_params"][f]

C13_Witness ==
    /\ Len(Renders) = 1
    /\ DOMAIN Renders[1].args =
          { "title", "state", "zip_codes_left", "left_panel",
            "zip_codes_right", "right_panel", "bottom_panel" }
    /\ result.kind = "locator"

\* C18: build_pptx_slide is invoked at most once in a run, only by
\* slide_builder and only after query_structure, zip_data and slide_params
\* are published; query_analyzer and data_formatter invoke nothing; and
\* zip_data_retriever invokes only get_zips.
C18_ToolUse ==
    /\ Len(Renders) <= 1
    /\ Renders # <<>> => Keys \subseteq DOMAIN ctx
    /\ \A i \in 1..Len(toolCalls) :
          \/ /\ toolCalls[i].agent = "slide_builder"
             /\ toolCalls[i].tool = "build_pptx_slide"
          \/ /\ toolCalls[i].agent = "zip_data_retriever"
             /\ toolCalls[i].tool = "get_zips"

C18_Witness ==
    /\ ctl.st = "Completed"
    /\ Len(Fetches) = 2
    /\ Len(Renders) = 1

RunAlone(r) ==
    /\ DOMAIN r.ctx = { r.writes[i][1] : i \in 1..Len(r.writes) }
    /\ "query_structure" \in DOMAIN r.ctx =>
          /\ r.ctx["query_structure"].original_query = r.query
          /\ r.ctx["query_structure"] \in Classify(r.query)
    /\ "zip_data" \in DOMAIN r.ctx =>
          /\ "query_structure" \in DOMAIN r.ctx
          /\ r.ctx["zip_data"].left_data.val.zips
                = r.ctx["query_structure"].left_zips
          /\ r.ctx["zip_data"].right_data.isNull
                = r.ctx["query_structure"].right_zips.isNull
          /\ r.ctx["zip_data"].right_data.val.zips
                = r.ctx["query_structure"].right_zips.val
    /\ "slide_params" \in DOMAIN r.ctx =>
          /\ "zip_data" \in DOMAIN r.ctx
          /\ r.ctx["slide_params"]
                = Format(r.ctx["query_structure"], r.ctx["zip_data"])

Scheduled ==
    [query |-> query, ctl |-> ctl, active |-> active, started |-> started,
     ctx |-> ctx, writes |-> writes, toolCalls |-> toolCalls,
     responses |-> responses, result |-> result]

C14_Isolation ==
    /\ RunAlone(Scheduled)
    /\ RunAlone(parked)

C14_Witness ==
    /\ query # parked.query
    /\ ctl.st = "Running" /\ ctl.idx = 3
    /\ parked.ctl.st = "Running" /\ parked.ctl.idx = 2
    /\ "zip_data" \in DOMAIN ctx
    /\ "query_structure" \in DOMAIN parked.ctx
    /\ Len(parked.responses) = 1

\* The groupings of the codes of q at a conjunction (with/to, and) that
\* has codes on both sides.
ConjunctionSplits(q, conj) ==
    { << ExtractZips(SubSeq(q, 1, p - 1)), ExtractZips(SubSeq(q, p + 1, Len(q))) >> :
        p \in { i \in 1..Len(q) :
                  /\ q[i].k \in conj
                  /\ ExtractZips(SubSeq(q, 1, i - 1)) # <<>>
                  /\ ExtractZips(SubSeq(q, i + 1, Len(q))) # <<>> } }

KeywordOnly(q) ==
    /\ \E i \in 1..Len(q) : q[i].k = "compare"
    /\ \A i \in 1..Len(q) : q[i].k # "vs"

C16_Aggregate ==
    "query_structure" \in DOMAIN ctx =>
        LET qs == ctx["query_structure"]
            plain == \A i \in 1..Len(query) : query[i].k \notin {"vs", "compare"}
        IN  /\ (Len(ExtractZips(query)) > 1 /\ plain) =>
                  /\ qs.comparison_type = "aggregate"
                  /\ qs.left_zips = ExtractZips(query)
                  /\ qs.right_zips.isNull
            /\ qs.comparison_type = "aggregate" => plain

C16_Witness ==
    /\ "query_structure" \in DOMAIN ctx
    /\ ctx["query_structure"].comparison_type = "aggregate"
    /\ ctx["query_structure"].left_zips = << Z30045, Z30043, Z30045 >>
    /\ \E i \in 1..Len(query) : query[i].k = "and"

\* C17: when a get_zips invocation answers with an error, the retrieval
\* stage fails without calling get_zips again for that group: no error
\* response is kept by a retriever that goes on, zip_data is never published
\* with an error response in it, and the calls never outnumber the groups.
C17_ErrorFailsStage ==
    /\ \A i \in 1..Len(responses) : responses[i].ok
    /\ "zip_data" \in DOMAIN ctx =>
          /\ ctx["zip_data"].left_data.val.ok
          /\ ~ctx["zip_data"].right_data.isNull =>
                ctx["zip_data"].right_data.val.ok
    /\ "query_structure" \in DOMAIN ctx =>
          Len(Fetches) <= (IF ctx["query_structure"].right_zips.isNull THEN 1 ELSE 2)

=============================================================================
